---- MODULE Spec2Model ----
(***************************************************************************)
(* go-cache: the cache facade (Cache), the in-process TTL store            *)
(* (MemoryStore) with its reaper goroutine, and the callers' goroutines.   *)
(*                                                                         *)
(* Durations and instants are counted in units of ten minutes; `now` is    *)
(* time.Now().UnixNano() in that unit.  A Go interface{} value is a record *)
(* [kind, n]: its dynamic type and its payload.                            *)
(***************************************************************************)
EXTENDS Integers, Sequences, FiniteSets, TLC

VARIABLES
    config,     \* the *Config handed to New
    cache,      \* what New returned: the Cache (store kind, defaultTTL) or the error
    items,      \* MemoryStore.items: key -> item (or absent); with the remote
                \* backend, the keys the Redis server holds
    cleanup,    \* MemoryStore.cleanup
    mu,         \* MemoryStore.mu: the holders of the exclusive and of the shared lock
    now,        \* the wall clock
    reaper,     \* the cleanupExpired goroutine: position, ticker
    stopRecv,   \* how many values the reaper has received from MemoryStore.stop
    crashed,    \* the process died of an unrecovered panic
    th,         \* the callers' goroutines: the call each is in and its position
    lastWrite,  \* history: per key, the last write (which method, its arguments, when)
    returned    \* history: the values Increment has returned, in order of return

vars == <<config, cache, items, cleanup, mu, now, reaper, stopRecv, crashed,
          th, lastWrite, returned>>

----------------------------------------------------------------------------
(* Bounds of the model *)

MaxTime == 3
NumCallers == 2
MaxCounter == 3
MaxIncCalls == 3
\* The README's limit of 100 requests, scaled down, and its window, in
\* ticks of the clock.
RateLimit == 2
RateWindow == 1

Keys == {"k1", "k2"}

(* Program constants, in units of ten minutes *)
DefaultCleanupInterval == 1
DefaultDefaultTTL == 6

----------------------------------------------------------------------------
(* Values of dynamic type *)

Nil == [kind |-> "nil", n |-> 0]
Str(i) == [kind |-> "string", n |-> i]
Int64(i) == [kind |-> "int64", n |-> i]
Bool(b) == [kind |-> "bool", n |-> IF b THEN 1 ELSE 0]
GoInt(i) == [kind |-> "int", n |-> i]

ErrNone == "nil"
ErrNotFound == "key not found"
ErrFetch == "fetcher failed"
ErrRedis == "redis: connection refused"

----------------------------------------------------------------------------
(* config.go *)

BackendMemory == "memory"
BackendRedis == "redis"

NilConfig ==
    [isNil |-> TRUE, Backend |-> "", RedisURL |-> "", DefaultTTL |-> 0,
     CleanupInterval |-> 0]

DefaultConfig ==
    [isNil |-> FALSE, Backend |-> BackendMemory, RedisURL |-> "",
     DefaultTTL |-> DefaultDefaultTTL,
     CleanupInterval |-> DefaultCleanupInterval]

----------------------------------------------------------------------------
(* The item and the store *)

Absent == [present |-> FALSE, value |-> Nil, expiration |-> 0]
Item(v, e) == [present |-> TRUE, value |-> v, expiration |-> e]

\* Mutant: an expiration of 0 is an instant like any other.
isExpiredNoSentinel(it, t) == t > it.expiration

\* isExpired, with t the reading of time.Now().
isExpired(it, t) ==
    IF it.expiration = 0 THEN FALSE ELSE t > it.expiration

EmptyItems == [k \in Keys |-> Absent]

\* Mutant: the expiration is the instant of the write, ttl not added.
SetExpirationNoTTL(t, ttl) == IF ttl > 0 THEN t ELSE 0

\* Set: the expiration instant of an item written at t with ttl.
SetExpiration(t, ttl) == IF ttl > 0 THEN t + ttl ELSE 0

\* Mutant: Get has an error of its own for an expired item.
StoreGetExpiredErr(its, t, k) ==
    IF ~its[k].present THEN [val |-> Nil, err |-> ErrNotFound]
    ELSE IF isExpired(its[k], t) THEN [val |-> Nil, err |-> "key expired"]
    ELSE [val |-> its[k].value, err |-> ErrNone]

\* Mutant: Get does not look at the expiration.
StoreGetNoExpiry(its, t, k) ==
    IF ~its[k].present THEN [val |-> Nil, err |-> ErrNotFound]
    ELSE [val |-> its[k].value, err |-> ErrNone]

\* Mutant: Get takes a nil value for a missing key.
StoreGetNilMissing(its, t, k) ==
    IF ~its[k].present \/ isExpired(its[k], t) \/ its[k].value = Nil
    THEN [val |-> Nil, err |-> ErrNotFound]
    ELSE [val |-> its[k].value, err |-> ErrNone]

\* Get, under the shared lock.
StoreGet(its, t, k) ==
    IF ~its[k].present THEN [val |-> Nil, err |-> ErrNotFound]
    ELSE IF isExpired(its[k], t) THEN [val |-> Nil, err |-> ErrNotFound]
    ELSE [val |-> its[k].value, err |-> ErrNone]

\* Has, under the shared lock.
StoreHas(its, t, k) ==
    IF ~its[k].present THEN FALSE ELSE ~isExpired(its[k], t)

\* Mutant: Set leaves an item the map already holds as it is.
StoreSetIfAbsent(its, t, k, v, ttl) ==
    IF its[k].present THEN its
    ELSE [its EXCEPT ![k] = Item(v, SetExpiration(t, ttl))]

\* Set, under the exclusive lock.
StoreSet(its, t, k, v, ttl) ==
    [its EXCEPT ![k] = Item(v, SetExpiration(t, ttl))]

\* Mutant: Delete leaves an entry with a nil value under the key.
StoreDeleteTombstone(its, k) == [its EXCEPT ![k] = Item(Nil, 0)]

\* Mutant: Delete empties the map.
StoreDeleteAll(its, k) == EmptyItems

\* Delete, under the exclusive lock.
StoreDelete(its, k) == [its EXCEPT ![k] = Absent]

\* Mutant: Clear keeps the counters.
StoreClearKeepsCounters(its) ==
    [k \in Keys |-> IF its[k].present /\ its[k].value.kind = "int64"
                    THEN its[k] ELSE Absent]

\* Clear, under the exclusive lock.
StoreClear(its) == EmptyItems

\* Mutant: the type assertion matches a Go int as well as an int64.
IncrementCurrentAnyInteger(it, t) ==
    IF it.present /\ ~isExpired(it, t)
    THEN (IF it.value.kind \in {"int64", "int"} THEN it.value.n ELSE 0)
    ELSE 0

\* Mutant: the type assertion never matches and the start value is always 0.
IncrementCurrentNoMatch(it, t) == 0

\* Increment: the start value read under the exclusive lock.
IncrementCurrent(it, t) ==
    IF it.present /\ ~isExpired(it, t)
    THEN (IF it.value.kind = "int64" THEN it.value.n ELSE 0)
    ELSE 0

\* Increment: newValue := current + delta.
IncrementNewValue(current, delta) == current + delta

\* Mutant: the new item takes over the expiration of the item it replaces.
IncrementStoreKeepsExpiration(its, k, newValue) ==
    [its EXCEPT ![k] = Item(Int64(newValue), its[k].expiration)]

\* Increment: the item stored.
IncrementStore(its, k, newValue) ==
    [its EXCEPT ![k] = Item(Int64(newValue), 0)]

\* Mutant: Decrement hands delta on as it is.
DecrementDeltaSame(delta) == delta

\* Decrement: the delta handed to Increment.
DecrementDelta(delta) == 0 - delta

\* Mutant: the sweep removes nothing.
SweepNothing(its, t) == its

\* Mutant: the sweep removes every item that has an expiration.
SweepTimed(its, t) ==
    [k \in Keys |-> IF its[k].present /\ its[k].expiration # 0 THEN Absent
                    ELSE its[k]]

\* cleanupExpired: one sweep over the map.
Sweep(its, t) ==
    [k \in Keys |-> IF its[k].present /\ isExpired(its[k], t) THEN Absent
                    ELSE its[k]]

----------------------------------------------------------------------------
(* New and NewMemoryStore *)

\* Mutant: New falls back on the memory store for whatever it is given.
NewFallsBack(cfg, reachable) ==
    [ok |-> TRUE, store |-> "memory", defaultTTL |-> cfg.DefaultTTL,
     cleanup |-> cfg.CleanupInterval, err |-> ErrNone]

\* What New returns for a config; reachable says whether the remote service
\* answered the ping of NewRedisStore.
New(cfg, reachable) ==
    LET c == IF cfg.isNil THEN DefaultConfig ELSE cfg IN
    IF c.Backend = BackendMemory
    THEN [ok |-> TRUE, store |-> "memory", defaultTTL |-> c.DefaultTTL,
          cleanup |-> c.CleanupInterval, err |-> ErrNone]
    ELSE IF c.Backend = BackendRedis
    THEN (IF c.RedisURL = ""
          THEN [ok |-> FALSE, store |-> "none", defaultTTL |-> 0,
                cleanup |-> 0, err |-> "RedisURL is required for Redis backend"]
          ELSE IF reachable
          THEN [ok |-> TRUE, store |-> "redis", defaultTTL |-> c.DefaultTTL,
                cleanup |-> 0, err |-> ErrNone]
          ELSE [ok |-> FALSE, store |-> "none", defaultTTL |-> 0,
                cleanup |-> 0, err |-> "failed to create Redis store"])
    ELSE [ok |-> FALSE, store |-> "none", defaultTTL |-> 0,
          cleanup |-> 0, err |-> "unsupported backend"]

\* The configurations the callers build: nil, and Config literals that set
\* or leave unset (zero) each field.
ConfigTTLs == {0, 2}
ConfigIntervals == {0, 2}
Configs ==
    {NilConfig} \cup
    [isNil : {FALSE}, Backend : {BackendMemory}, RedisURL : {""},
     DefaultTTL : ConfigTTLs, CleanupInterval : ConfigIntervals] \cup
    [isNil : {FALSE}, Backend : {BackendRedis, ""}, RedisURL : {"", "redis://host"},
     DefaultTTL : {0}, CleanupInterval : {0}]

----------------------------------------------------------------------------
(* Goroutines *)

Callers == 1 .. NumCallers
ReaperId == 0

\* GetMany's results map: per key, no entry or the entry's value.
NoEntry == [found |-> FALSE, value |-> Nil]
Entry(v) == [found |-> TRUE, value |-> v]
NoResults == [k \in Keys |-> NoEntry]

\* A caller: the facade method it is in (op) and its arguments, the store
\* method it is in (sop), its position and its locals; for GetMany the keys
\* asked for, those still to read and the results map.
Idle ==
    [pc |-> "idle", op |-> "", sop |-> "", key |-> "", val |-> Nil, ttl |-> 0,
     arg |-> 0, delta |-> 0, cur |-> 0, ret |-> Nil, err |-> ErrNone,
     fetches |-> 0, asked |-> <<>>, keys |-> <<>>, results |-> NoResults]

\* What the map holds under a key at instant t, by class.
ItemClass(it, t) ==
    IF ~it.present THEN "absent"
    ELSE IF isExpired(it, t) THEN "expired"
    ELSE IF it.value.kind = "int64" THEN "counter"
    ELSE IF it.expiration = 0 THEN "lasting"
    ELSE "expiring"

\* History of a key: never written, or its last write: the store method
\* (kind), the facade method that called it (by), the arguments, the instant
\* of a Set, and whether an Increment was the first write the key ever got.
\* For a Clear and an Increment: what the map held under the key (had); for a
\* Delete: whether
\* the write before it was a Delete too (again).  written says whether a Set
\* or an Increment has ever written the key.
NoWrite ==
    [kind |-> "none", by |-> "", val |-> Nil, ttl |-> 0, arg |-> 0, at |-> 0,
     first |-> FALSE, had |-> "", again |-> FALSE, written |-> FALSE]
Wrote(kind, by) == [NoWrite EXCEPT !.kind = kind, !.by = by]

\* The state right after New(cfg) has returned: NewMemoryStore has made the
\* map and the stop channel and has spawned cleanupExpired, which has not
\* run yet.
InitWith(cfg, reachable) ==
    LET r == New(cfg, reachable) IN
    /\ config = cfg
    /\ cache = [ok |-> r.ok, store |-> r.store, defaultTTL |-> r.defaultTTL,
                err |-> r.err]
    /\ items = EmptyItems
    /\ cleanup = r.cleanup
    /\ mu = [w |-> {}, r |-> {}]
    /\ now = 0
    /\ reaper = [pc |-> IF r.store = "memory" THEN "start" ELSE "none",
                 next |-> 0, tick |-> FALSE]
    /\ stopRecv = 0
    /\ crashed = FALSE
    /\ th = [t \in Callers |-> Idle]
    /\ lastWrite = [k \in Keys |-> NoWrite]
    /\ returned = <<>>

\* A Config literal with every field of the memory backend set: a default
\* TTL of twenty minutes, a sweep every ten minutes.
SetConfig ==
    [isNil |-> FALSE, Backend |-> BackendMemory, RedisURL |-> "",
     DefaultTTL |-> 2, CleanupInterval |-> 1]

Init == InitWith(SetConfig, TRUE)

\* Every configuration.
InitNew == \E cfg \in Configs : \E reachable \in BOOLEAN : InitWith(cfg, reachable)

\* The process runs and holds a cache.
Alive == ~crashed /\ cache.ok

\* The process runs and holds a cache on the memory store.
Live == Alive /\ cache.store = "memory"

\* The process runs and holds a cache on the Redis store.
Remote == Alive /\ cache.store = "redis"

\* A Config for the remote backend, and the state after New has returned
\* with the server answering the ping.
RedisConfig ==
    [isNil |-> FALSE, Backend |-> BackendRedis, RedisURL |-> "redis://host",
     DefaultTTL |-> 2, CleanupInterval |-> 0]

InitRedis == InitWith(RedisConfig, TRUE)

----------------------------------------------------------------------------
(* sync.RWMutex *)

\* Lock waits for the writer and the readers to leave.  RLock waits for the
\* writer to leave, and for a writer that is waiting in Lock (the reaper: a
\* caller's wait is part of its entry step) to have had its turn.
CanLock == mu.w = {} /\ mu.r = {}
CanRLock == mu.w = {} /\ reaper.pc # "locking"
Locked(id) == [mu EXCEPT !.w = mu.w \cup {id}]
RLocked(id) == [mu EXCEPT !.r = mu.r \cup {id}]
Unlocked(id) == [w |-> mu.w \ {id}, r |-> mu.r \ {id}]

\* Mutant: every store method takes the shared lock.
LockModeShared(sop) == "r"

\* The lock each store method takes: "w" exclusive, "r" shared.
LockMode(sop) == IF sop \in {"Get", "Has"} THEN "r" ELSE "w"

CanAcquire(sop) == IF LockMode(sop) = "r" THEN CanRLock ELSE CanLock
Acquired(id, sop) == IF LockMode(sop) = "r" THEN RLocked(id) ELSE Locked(id)

\* A caller enters a store method: it takes the method's lock.
Enter(t, op, sop, k, v, ttl, arg, delta) ==
    /\ Live
    /\ th[t].pc \in {"idle", "ret"}
    /\ CanAcquire(sop)
    /\ mu' = Acquired(t, sop)
    /\ th' = [th EXCEPT ![t] = [Idle EXCEPT !.pc = "crit", !.op = op,
                 !.sop = sop, !.key = k, !.val = v, !.ttl = ttl, !.arg = arg,
                 !.delta = delta]]
    /\ UNCHANGED <<config, cache, items, cleanup, now, reaper, stopRecv,
                   crashed, lastWrite, returned>>

\* The facade method of call c has returned (v, e); the caller keeps the
\* results until its next call.
Returned(c, v, e) ==
    [Idle EXCEPT !.pc = "ret", !.op = c.op, !.key = c.key, !.ret = v,
                 !.err = e, !.fetches = c.fetches, !.asked = c.asked,
                 !.results = c.results]

\* A caller leaves a store method with (v, e): it drops the lock; the facade
\* method returns, or GetOrSet goes on at pc.
Leave(t, pc, v, e) ==
    /\ mu' = Unlocked(t)
    /\ th' = [th EXCEPT ![t] =
                IF pc = "ret" THEN Returned(th[t], v, e)
                ELSE [th[t] EXCEPT !.pc = pc, !.sop = "", !.ret = v, !.err = e]]

----------------------------------------------------------------------------
(* Cache: the facade's methods, up to the lock of the store method called *)

CacheGet(t, k) == Enter(t, "Get", "Get", k, Nil, 0, 0, 0)

CacheHas(t, k) == Enter(t, "Has", "Has", k, Nil, 0, 0, 0)

CacheSet(t, k, v) == Enter(t, "Set", "Set", k, v, cache.defaultTTL, 0, 0)

CacheSetWithTTL(t, k, v, ttl) == Enter(t, "SetWithTTL", "Set", k, v, ttl, 0, 0)

CacheForever(t, k, v) == Enter(t, "Forever", "Set", k, v, 0, 0, 0)

CacheDelete(t, k) == Enter(t, "Delete", "Delete", k, Nil, 0, 0, 0)

CacheClear(t) == Enter(t, "Clear", "Clear", "", Nil, 0, 0, 0)

CacheIncrement(t, k, d) == Enter(t, "Increment", "Increment", k, Nil, 0, d, d)

CacheDecrement(t, k, d) ==
    Enter(t, "Decrement", "Increment", k, Nil, 0, d, DecrementDelta(d))

CacheGetOrSet(t, k, ttl) == Enter(t, "GetOrSet", "Get", k, Nil, ttl, 0, 0)

CacheRemember(t, k) ==
    Enter(t, "Remember", "Get", k, Nil, cache.defaultTTL, 0, 0)

\* GetMany(keys): results := make(map); with no key to read it returns the
\* empty map at once, else it calls Get for the first key.
CacheGetMany(t, ks) ==
    /\ Live
    /\ th[t].pc \in {"idle", "ret"}
    /\ IF ks = <<>>
       THEN /\ th' = [th EXCEPT ![t] =
                        Returned([Idle EXCEPT !.op = "GetMany"], Nil, ErrNone)]
            /\ UNCHANGED mu
       ELSE /\ CanAcquire("Get")
            /\ mu' = Acquired(t, "Get")
            /\ th' = [th EXCEPT ![t] =
                        [Idle EXCEPT !.pc = "crit", !.op = "GetMany",
                           !.sop = "Get", !.key = Head(ks), !.asked = ks,
                           !.keys = Tail(ks)]]
    /\ UNCHANGED <<config, cache, items, cleanup, now, reaper, stopRecv,
                   crashed, lastWrite, returned>>

\* Close: the caller reaches the send on the unbuffered stop channel.
CacheClose(t) ==
    /\ Live
    /\ th[t].pc \in {"idle", "ret"}
    /\ th' = [th EXCEPT ![t] = [Idle EXCEPT !.pc = "send", !.op = "Close"]]
    /\ UNCHANGED <<config, cache, items, cleanup, mu, now, reaper, stopRecv,
                   crashed, lastWrite, returned>>

----------------------------------------------------------------------------
(* README, Example 2: API Rate Limiting *)

\* CheckRateLimit: count, _ := s.cache.Increment(ctx, key, 1)
CheckRateLimit(t, k) == Enter(t, "CheckRateLimit", "Increment", k, Nil, 0, 1, 1)

\* return count <= 100
Admit(count) == Bool(count <= RateLimit)

\* After the Increment (count is in ret): on count == 1 the caller calls
\* SetWithTTL(key, count, window), else it returns.
RateLimitNext(t) ==
    /\ ~crashed
    /\ th[t].pc = "counted"
    /\ IF th[t].ret = Int64(1)
       THEN /\ CanAcquire("Set")
            /\ mu' = Acquired(t, "Set")
            /\ th' = [th EXCEPT ![t].pc = "crit", ![t].sop = "Set",
                                ![t].val = th[t].ret, ![t].ttl = RateWindow]
       ELSE /\ th' = [th EXCEPT ![t] =
                        Returned(th[t], Admit(th[t].ret.n), ErrNone)]
            /\ UNCHANGED mu
    /\ UNCHANGED <<config, cache, items, cleanup, now, reaper, stopRecv,
                   crashed, lastWrite, returned>>

----------------------------------------------------------------------------
(* MemoryStore: the methods' bodies, run under the lock *)

InCrit(t, sop) == ~crashed /\ th[t].pc = "crit" /\ th[t].sop = sop

GetOrSetOps == {"GetOrSet", "Remember"}

\* Mutant: GetMany makes an entry for a key that missed too.
CollectAll(results, k, r) == [results EXCEPT ![k] = Entry(r.val)]

\* GetMany, lines 173-176: a value Get found goes into the results map.
Collect(results, k, r) ==
    IF r.err = ErrNone THEN [results EXCEPT ![k] = Entry(r.val)] ELSE results

\* Get's body; then the facade method goes on with what Get returned:
\* GetOrSet to the fetcher on an error, GetMany to its next key or, after the
\* last one, to the return of the map (in results) with no error.
GetBody(t) ==
    /\ InCrit(t, "Get")
    /\ LET r == StoreGet(items, now, th[t].key) IN
       IF th[t].op \in GetOrSetOps /\ r.err # ErrNone
       THEN Leave(t, "miss", Nil, r.err)
       ELSE IF th[t].op = "GetMany"
       THEN /\ mu' = Unlocked(t)
            /\ LET c == [th[t] EXCEPT
                           !.results = Collect(th[t].results, th[t].key, r)] IN
               th' = [th EXCEPT ![t] =
                        IF c.keys = <<>> THEN Returned(c, Nil, ErrNone)
                        ELSE [c EXCEPT !.pc = "next", !.sop = ""]]
       ELSE Leave(t, "ret", r.val, r.err)
    /\ UNCHANGED <<config, cache, items, cleanup, now, reaper, stopRecv,
                   crashed, lastWrite, returned>>

\* Mutant: Has deletes the item it finds expired.
HasBodyEvicts(t) ==
    /\ InCrit(t, "Has")
    /\ Leave(t, "ret", Bool(StoreHas(items, now, th[t].key)), ErrNone)
    /\ items' = [items EXCEPT ![th[t].key] =
                   IF isExpired(@, now) THEN Absent ELSE @]
    /\ UNCHANGED <<config, cache, cleanup, now, reaper, stopRecv,
                   crashed, lastWrite, returned>>

\* Has's body.
HasBody(t) ==
    /\ InCrit(t, "Has")
    /\ Leave(t, "ret", Bool(StoreHas(items, now, th[t].key)), ErrNone)
    /\ UNCHANGED <<config, cache, items, cleanup, now, reaper, stopRecv,
                   crashed, lastWrite, returned>>

SetBody(t) ==
    /\ InCrit(t, "Set")
    /\ items' = StoreSet(items, now, th[t].key, th[t].val, th[t].ttl)
    /\ lastWrite' = [lastWrite EXCEPT ![th[t].key] =
                       [Wrote("Set", th[t].op) EXCEPT !.val = th[t].val,
                          !.ttl = th[t].ttl, !.at = now, !.written = TRUE]]
    /\ Leave(t, "ret",
             IF th[t].op \in GetOrSetOps THEN th[t].val
             ELSE IF th[t].op = "CheckRateLimit" THEN Admit(th[t].val.n)
             ELSE Nil,
             ErrNone)
    /\ UNCHANGED <<config, cache, cleanup, now, reaper, stopRecv, crashed, returned>>

DeleteBody(t) ==
    /\ InCrit(t, "Delete")
    /\ items' = StoreDelete(items, th[t].key)
    /\ lastWrite' = [lastWrite EXCEPT ![th[t].key] =
                       [Wrote("Delete", th[t].op) EXCEPT
                          !.again = (lastWrite[th[t].key].kind = "Delete"),
                          !.written = lastWrite[th[t].key].written]]
    /\ Leave(t, "ret", Nil, ErrNone)
    /\ UNCHANGED <<config, cache, cleanup, now, reaper, stopRecv, crashed, returned>>

ClearBody(t) ==
    /\ InCrit(t, "Clear")
    /\ items' = StoreClear(items)
    /\ lastWrite' = [k \in Keys |->
                       [Wrote("Clear", th[t].op) EXCEPT
                          !.had = ItemClass(items[k], now),
                          !.written = lastWrite[k].written]]
    /\ Leave(t, "ret", Nil, ErrNone)
    /\ UNCHANGED <<config, cache, cleanup, now, reaper, stopRecv, crashed, returned>>

\* GetMany: the loop goes to its next key and calls Get for it.
GetManyNext(t) ==
    /\ ~crashed
    /\ th[t].pc = "next"
    /\ CanAcquire("Get")
    /\ mu' = Acquired(t, "Get")
    /\ th' = [th EXCEPT ![t].pc = "crit", ![t].sop = "Get",
                        ![t].key = Head(th[t].keys),
                        ![t].keys = Tail(th[t].keys)]
    /\ UNCHANGED <<config, cache, items, cleanup, now, reaper, stopRecv,
                   crashed, lastWrite, returned>>

\* Increment, lines 320-327: the read of the start value.
IncrementRead(t) ==
    /\ InCrit(t, "Increment")
    /\ th' = [th EXCEPT ![t].pc = "write",
                        ![t].cur = IncrementCurrent(items[th[t].key], now)]
    /\ UNCHANGED <<config, cache, items, cleanup, mu, now, reaper, stopRecv,
                   crashed, lastWrite, returned>>

\* Increment, lines 329-335: the write of the new value and the return.
IncrementWriteStep(t) ==
    /\ ~crashed
    /\ th[t].pc = "write"
    /\ LET newValue == IncrementNewValue(th[t].cur, th[t].delta) IN
       /\ items' = IncrementStore(items, th[t].key, newValue)
       /\ Leave(t, IF th[t].op = "CheckRateLimit" THEN "counted" ELSE "ret",
                Int64(newValue), ErrNone)
    /\ lastWrite' = [lastWrite EXCEPT ![th[t].key] =
                       [Wrote("Increment", th[t].op) EXCEPT
                          !.arg = th[t].delta,
                          !.first = (lastWrite[th[t].key].kind = "none"),
                          !.had = ItemClass(items[th[t].key], now),
                          !.written = TRUE]]
    /\ UNCHANGED <<config, cache, cleanup, now, reaper, stopRecv, crashed>>

IncrementWrite(t) == IncrementWriteStep(t) /\ UNCHANGED returned

\* The same step, with the value returned appended to the history.
IncrementWriteLogged(t) ==
    IncrementWriteStep(t) /\ returned' = Append(returned, th'[t].ret.n)

----------------------------------------------------------------------------
(* Cache.GetOrSet after the miss *)

\* What a fetcher can hand back: a value, or an error.
FetchValues == {Nil, Str(2)}
FetchOutcomes ==
    [val : FetchValues, err : {ErrNone}] \cup {[val |-> Nil, err |-> ErrFetch]}

\* value, err = fetcher(); an error is returned to the caller.
Fetch(t) ==
    /\ ~crashed
    /\ th[t].pc = "miss"
    /\ \E f \in FetchOutcomes :
         LET c == [th[t] EXCEPT !.fetches = @ + 1] IN
         th' = [th EXCEPT ![t] =
                  IF f.err = ErrNone
                  THEN [c EXCEPT !.pc = "fetched", !.val = f.val, !.ret = Nil,
                                 !.err = ErrNone]
                  ELSE Returned(c, Nil, f.err)]
    /\ UNCHANGED <<config, cache, items, cleanup, mu, now, reaper, stopRecv,
                   crashed, lastWrite, returned>>

\* Mutant: GetOrSet returns the value fetched without storing it.
GetOrSetReturnUnstored(t) ==
    /\ ~crashed
    /\ th[t].pc = "fetched"
    /\ th' = [th EXCEPT ![t] = Returned(th[t], th[t].val, ErrNone)]
    /\ UNCHANGED <<config, cache, items, cleanup, mu, now, reaper, stopRecv,
                   crashed, lastWrite, returned>>

\* Mutant: before it stores, GetOrSet looks at the map again and returns the
\* value another call has cached meanwhile.
GetOrSetStoreChecks(t) ==
    /\ ~crashed
    /\ th[t].pc = "fetched"
    /\ IF StoreGet(items, now, th[t].key).err = ErrNone
       THEN /\ th' = [th EXCEPT ![t] =
                       Returned(th[t], StoreGet(items, now, th[t].key).val,
                                ErrNone)]
            /\ UNCHANGED mu
       ELSE /\ CanAcquire("Set")
            /\ mu' = Acquired(t, "Set")
            /\ th' = [th EXCEPT ![t].pc = "crit", ![t].sop = "Set"]
    /\ UNCHANGED <<config, cache, items, cleanup, now, reaper, stopRecv,
                   crashed, lastWrite, returned>>

\* c.SetWithTTL(ctx, key, value, ttl): the caller takes the exclusive lock.
GetOrSetStore(t) ==
    /\ ~crashed
    /\ th[t].pc = "fetched"
    /\ CanAcquire("Set")
    /\ mu' = Acquired(t, "Set")
    /\ th' = [th EXCEPT ![t].pc = "crit", ![t].sop = "Set"]
    /\ UNCHANGED <<config, cache, items, cleanup, now, reaper, stopRecv,
                   crashed, lastWrite, returned>>

----------------------------------------------------------------------------
(* Cache.GetOrSet on the Redis store *)

\* RedisStore.Set, lines 55-67: a string goes to the server as it is, any
\* other value as its JSON text; the text of nil is null, the string Str(0).
RedisData(v) ==
    CASE v.kind = "string" -> v
      [] v.kind = "nil" -> Str(0)

\* The server holds the key: it drops a key when its time to live is over.
RedisHolds(its, t, k) ==
    its[k].present /\ (its[k].expiration = 0 \/ t < its[k].expiration)

\* RedisStore.Get: the server answers (up) with the string it holds or with
\* redis.Nil, which becomes ErrNotFound, or the call fails.
RedisGet(its, t, k, up) ==
    IF ~up THEN [val |-> Nil, err |-> ErrRedis]
    ELSE IF RedisHolds(its, t, k) THEN [val |-> its[k].value, err |-> ErrNone]
    ELSE [val |-> Nil, err |-> ErrNotFound]

\* GetOrSet calls c.Get, which calls RedisStore.Get.
CacheGetOrSetRemote(t, k, ttl) ==
    /\ Remote
    /\ th[t].pc \in {"idle", "ret"}
    /\ th' = [th EXCEPT ![t] = [Idle EXCEPT !.pc = "crit", !.op = "GetOrSet",
                 !.sop = "RedisGet", !.key = k, !.ttl = ttl]]
    /\ UNCHANGED <<config, cache, items, cleanup, mu, now, reaper, stopRecv,
                   crashed, lastWrite, returned>>

\* RedisStore.Get returns; GetOrSet returns the value of a hit and goes to
\* the fetcher on any error.
RedisStoreGet(t) ==
    /\ InCrit(t, "RedisGet")
    /\ \E up \in BOOLEAN :
         LET r == RedisGet(items, now, th[t].key, up) IN
         th' = [th EXCEPT ![t] =
                  IF r.err = ErrNone THEN Returned(th[t], r.val, ErrNone)
                  ELSE [th[t] EXCEPT !.pc = "miss", !.sop = "", !.err = r.err]]
    /\ UNCHANGED <<config, cache, items, cleanup, mu, now, reaper, stopRecv,
                   crashed, lastWrite, returned>>

\* c.SetWithTTL after the fetch, on RedisStore.Set: the server stores the
\* data with the ttl and the call returns nil, or the call fails and the
\* server stores nothing; err holds what the call returned.
RedisStoreSet(t) ==
    /\ Remote
    /\ th[t].pc = "fetched"
    /\ \E up \in BOOLEAN :
         IF up
         THEN /\ items' = StoreSet(items, now, th[t].key, RedisData(th[t].val),
                                   th[t].ttl)
              /\ lastWrite' = [lastWrite EXCEPT ![th[t].key] =
                                 [Wrote("Set", th[t].op) EXCEPT
                                    !.val = RedisData(th[t].val),
                                    !.ttl = th[t].ttl, !.at = now,
                                    !.written = TRUE]]
              /\ th' = [th EXCEPT ![t].pc = "stored", ![t].err = ErrNone]
         ELSE /\ th' = [th EXCEPT ![t].pc = "stored", ![t].err = ErrRedis]
              /\ UNCHANGED <<items, lastWrite>>
    /\ UNCHANGED <<config, cache, cleanup, mu, now, reaper, stopRecv, crashed,
                   returned>>

\* Mutant: GetOrSet hands the error of the Set to its caller.
GetOrSetResultSurfaced(value, setErr) ==
    IF setErr = ErrNone THEN [val |-> value, err |-> ErrNone]
    ELSE [val |-> Nil, err |-> setErr]

\* GetOrSet, lines 150-155: what it returns once SetWithTTL has returned
\* setErr.
GetOrSetResult(value, setErr) == [val |-> value, err |-> ErrNone]

\* GetOrSet returns.
GetOrSetReturn(t) ==
    /\ ~crashed
    /\ th[t].pc = "stored"
    /\ LET r == GetOrSetResult(th[t].val, th[t].err) IN
       th' = [th EXCEPT ![t] = Returned(th[t], r.val, r.err)]
    /\ UNCHANGED <<config, cache, items, cleanup, mu, now, reaper, stopRecv,
                   crashed, lastWrite, returned>>

----------------------------------------------------------------------------
(* cleanupExpired, the ticker and the clock *)

\* time.NewTicker(m.cleanup) panics on a non-positive interval; the panic is
\* in a goroutine of its own, nothing recovers it, and the process dies.
ReaperStart ==
    /\ ~crashed
    /\ reaper.pc = "start"
    /\ IF cleanup <= 0
       THEN /\ reaper' = [reaper EXCEPT !.pc = "panicked"]
            /\ crashed' = TRUE
       ELSE /\ reaper' = [pc |-> "select", next |-> now + cleanup, tick |-> FALSE]
            /\ UNCHANGED crashed
    /\ UNCHANGED <<config, cache, items, cleanup, mu, now, stopRecv, th, lastWrite, returned>>

TickerRuns == reaper.pc \in {"select", "locking", "sweeping"}

\* Time passes; a running ticker whose period has elapsed puts a tick in its
\* channel (of capacity one).
Tick ==
    /\ Alive
    /\ now < MaxTime
    /\ now' = now + 1
    /\ reaper' = IF TickerRuns /\ now + 1 >= reaper.next
                 THEN [reaper EXCEPT !.tick = TRUE, !.next = @ + cleanup]
                 ELSE reaper
    /\ UNCHANGED <<config, cache, items, cleanup, mu, stopRecv, crashed, th,
                   lastWrite, returned>>

\* The reaper has served every tick so far: it waits in the select and the
\* ticker's channel is empty.
ReaperServed == reaper.pc = "select" /\ ~reaper.tick

\* Time passes under a prompt reaper: a tick is taken, the lock obtained and
\* the sweep done well within one tick of the clock (ten minutes), so the
\* clock moves on only when the reaper has nothing left to do.
PromptTick == ReaperServed /\ Tick

\* case <-ticker.C
ReaperTick ==
    /\ ~crashed
    /\ reaper.pc = "select"
    /\ reaper.tick
    /\ reaper' = [reaper EXCEPT !.pc = "locking", !.tick = FALSE]
    /\ UNCHANGED <<config, cache, items, cleanup, mu, now, stopRecv, crashed,
                   th, lastWrite, returned>>

\* m.mu.Lock()
ReaperLock ==
    /\ ~crashed
    /\ reaper.pc = "locking"
    /\ CanLock
    /\ mu' = Locked(ReaperId)
    /\ reaper' = [reaper EXCEPT !.pc = "sweeping"]
    /\ UNCHANGED <<config, cache, items, cleanup, now, stopRecv, crashed, th,
                   lastWrite, returned>>

\* the range loop and m.mu.Unlock()
ReaperSweep ==
    /\ ~crashed
    /\ reaper.pc = "sweeping"
    /\ items' = Sweep(items, now)
    /\ mu' = Unlocked(ReaperId)
    /\ reaper' = [reaper EXCEPT !.pc = "select"]
    /\ UNCHANGED <<config, cache, cleanup, now, stopRecv, crashed, th, lastWrite, returned>>

\* Mutant: the stop case leaves the select, not the loop.
ReaperStopStays(t) ==
    /\ ~crashed
    /\ reaper.pc = "select"
    /\ th[t].pc = "send"
    /\ stopRecv' = stopRecv + 1
    /\ th' = [th EXCEPT ![t] = Returned(th[t], Nil, ErrNone)]
    /\ UNCHANGED <<config, cache, items, cleanup, mu, now, reaper, crashed,
                   lastWrite, returned>>

\* m.stop <- true meets case <-m.stop: Close returns, the reaper returns
\* (and its deferred ticker.Stop() runs).
ReaperStop(t) ==
    /\ ~crashed
    /\ reaper.pc = "select"
    /\ th[t].pc = "send"
    /\ reaper' = [pc |-> "exited", next |-> 0, tick |-> FALSE]
    /\ stopRecv' = stopRecv + 1
    /\ th' = [th EXCEPT ![t] = Returned(th[t], Nil, ErrNone)]
    /\ UNCHANGED <<config, cache, items, cleanup, mu, now, crashed, lastWrite, returned>>

----------------------------------------------------------------------------
(* The sequential specification: one caller, every method of the facade *)

SeqKeys == {"k1"}
Values == {Nil, Str(1)}
TTLs == {-1, 0, 1}
Deltas == {1, 2}

\* Counters stay within the bound of the model, far from the ends of int64:
\* the sums below never wrap.
InRange(k, delta) ==
    LET n == IncrementCurrent(items[k], now) + delta IN
    n >= 0 - MaxCounter /\ n <= MaxCounter

Main == 1

Next ==
    \/ \E k \in SeqKeys : CacheGet(Main, k)
    \/ \E k \in SeqKeys : CacheHas(Main, k)
    \/ \E k \in SeqKeys : \E v \in Values : CacheSet(Main, k, v)
    \/ \E k \in SeqKeys : \E v \in Values : \E ttl \in TTLs :
         CacheSetWithTTL(Main, k, v, ttl)
    \/ \E k \in SeqKeys : \E v \in Values : CacheForever(Main, k, v)
    \/ \E k \in SeqKeys : CacheDelete(Main, k)
    \/ CacheClear(Main)
    \/ \E k \in SeqKeys : \E d \in Deltas :
         InRange(k, d) /\ CacheIncrement(Main, k, d)
    \/ \E k \in SeqKeys : \E d \in Deltas :
         InRange(k, 0 - d) /\ CacheDecrement(Main, k, d)
    \/ \E k \in SeqKeys : \E ttl \in TTLs : CacheGetOrSet(Main, k, ttl)
    \/ \E k \in SeqKeys : CacheRemember(Main, k)
    \/ CacheClose(Main)
    \/ GetBody(Main)
    \/ HasBody(Main)
    \/ SetBody(Main)
    \/ DeleteBody(Main)
    \/ ClearBody(Main)
    \/ IncrementRead(Main)
    \/ IncrementWrite(Main)
    \/ Fetch(Main)
    \/ GetOrSetStore(Main)
    \/ ReaperStart
    \/ Tick
    \/ ReaperTick
    \/ ReaperLock
    \/ ReaperSweep
    \/ ReaperStop(Main)

Spec == Init /\ [][Next]_vars

----------------------------------------------------------------------------
(* Construction: every configuration, then the calls of the repository's  *)
(* tests on one key                                                        *)

NextNew ==
    \/ CacheSet(Main, "k1", Str(1))
    \/ CacheGet(Main, "k1")
    \/ CacheHas(Main, "k1")
    \/ CacheDelete(Main, "k1")
    \/ CacheClose(Main)
    \/ GetBody(Main)
    \/ HasBody(Main)
    \/ SetBody(Main)
    \/ DeleteBody(Main)
    \/ ReaperStart
    \/ Tick
    \/ ReaperTick
    \/ ReaperLock
    \/ ReaperSweep
    \/ ReaperStop(Main)

SpecNew == InitNew /\ [][NextNew]_vars

----------------------------------------------------------------------------
(* Several keys: one caller works on every key of the store *)

\* The key lists handed to GetMany.
KeyLists == {<<>>, <<"k2">>, <<"k1", "k2">>, <<"k2", "k1">>}

NextMulti ==
    \/ \E k \in Keys : CacheGet(Main, k)
    \/ \E k \in Keys : CacheHas(Main, k)
    \/ \E k \in Keys : \E ttl \in {0, 1} : CacheSetWithTTL(Main, k, Str(1), ttl)
    \/ \E k \in Keys : InRange(k, 1) /\ CacheIncrement(Main, k, 1)
    \/ \E k \in Keys : CacheDelete(Main, k)
    \/ CacheClear(Main)
    \/ \E ks \in KeyLists : CacheGetMany(Main, ks)
    \/ GetBody(Main)
    \/ HasBody(Main)
    \/ SetBody(Main)
    \/ DeleteBody(Main)
    \/ ClearBody(Main)
    \/ IncrementRead(Main)
    \/ IncrementWrite(Main)
    \/ GetManyNext(Main)
    \/ ReaperStart
    \/ Tick
    \/ ReaperTick
    \/ ReaperLock
    \/ ReaperSweep

SpecMulti == Init /\ [][NextMulti]_vars

----------------------------------------------------------------------------
(* The remote backend: one caller's GetOrSet calls on a Redis store whose *)
(* calls may fail                                                         *)

NextRedis ==
    \/ \E k \in Keys : \E ttl \in {0, 1} : CacheGetOrSetRemote(Main, k, ttl)
    \/ RedisStoreGet(Main)
    \/ Fetch(Main)
    \/ RedisStoreSet(Main)
    \/ GetOrSetReturn(Main)
    \/ Tick

SpecRedis == InitRedis /\ [][NextRedis]_vars

----------------------------------------------------------------------------
(* The rate limiter of the README: one caller's requests on one key *)

NextRate ==
    \/ InRange("k1", 1) /\ CheckRateLimit(Main, "k1")
    \/ IncrementRead(Main)
    \/ IncrementWrite(Main)
    \/ RateLimitNext(Main)
    \/ SetBody(Main)
    \/ ReaperStart
    \/ Tick
    \/ ReaperTick
    \/ ReaperLock
    \/ ReaperSweep

SpecRate == Init /\ [][NextRate]_vars

----------------------------------------------------------------------------
(* The open store under a prompt and fairly scheduled reaper: one caller  *)
(* sets items with a ttl and reads them; nobody calls Close               *)

NextSweep ==
    \/ \E k \in Keys : \E ttl \in {1, 2} : CacheSetWithTTL(Main, k, Str(1), ttl)
    \/ \E k \in Keys : CacheGet(Main, k)
    \/ GetBody(Main)
    \/ SetBody(Main)
    \/ ReaperStart
    \/ PromptTick
    \/ ReaperTick
    \/ ReaperLock
    \/ ReaperSweep

\* The reaper goes on when it can, sync.RWMutex does not starve it, and a
\* caller inside a store method finishes it.
FairSweep ==
    /\ WF_vars(ReaperStart \/ ReaperTick \/ ReaperSweep)
    /\ SF_vars(ReaperLock)
    /\ WF_vars(GetBody(Main) \/ SetBody(Main))

SpecSweep == Init /\ [][NextSweep]_vars /\ FairSweep

----------------------------------------------------------------------------
(* Counters over values of any type: one caller sets a string, an int or  *)
(* an int64 under a key, with a ttl or without, increments and decrements *)
(* it, reads, deletes and clears, beside the reaper                       *)

CounterValues == {Str(1), GoInt(1), Int64(1)}

NextCounter ==
    \/ \E v \in CounterValues : \E ttl \in {0, 1} :
         CacheSetWithTTL(Main, "k1", v, ttl)
    \/ InRange("k1", 2) /\ CacheIncrement(Main, "k1", 2)
    \/ InRange("k1", 0 - 1) /\ CacheDecrement(Main, "k1", 1)
    \/ CacheGet(Main, "k1")
    \/ CacheDelete(Main, "k1")
    \/ CacheClear(Main)
    \/ GetBody(Main)
    \/ SetBody(Main)
    \/ DeleteBody(Main)
    \/ ClearBody(Main)
    \/ IncrementRead(Main)
    \/ IncrementWrite(Main)
    \/ ReaperStart
    \/ Tick
    \/ ReaperTick
    \/ ReaperLock
    \/ ReaperSweep

SpecCounter == Init /\ [][NextCounter]_vars

----------------------------------------------------------------------------
(* Concurrent cache-aside: every caller calls GetOrSet on the same key,   *)
(* with a fetcher of its own                                              *)

NextFetch ==
    \/ \E t \in Callers : CacheGetOrSet(t, "k1", 1)
    \/ \E t \in Callers : GetBody(t)
    \/ \E t \in Callers : Fetch(t)
    \/ \E t \in Callers : GetOrSetStore(t)
    \/ \E t \in Callers : SetBody(t)
    \/ ReaperStart
    \/ Tick
    \/ ReaperTick
    \/ ReaperLock
    \/ ReaperSweep

SpecFetch == Init /\ [][NextFetch]_vars

----------------------------------------------------------------------------
(* Concurrent counters: every caller increments the same fresh key by one *)

\* Increment calls begun: those that have returned and those in flight.
IncCalls ==
    Len(returned) + Cardinality({t \in Callers : th[t].pc \in {"crit", "write"}})

NextInc ==
    \/ \E t \in Callers : IncCalls < MaxIncCalls /\ CacheIncrement(t, "k1", 1)
    \/ \E t \in Callers : IncrementRead(t)
    \/ \E t \in Callers : IncrementWriteLogged(t)
    \/ ReaperStart
    \/ Tick
    \/ ReaperTick
    \/ ReaperLock
    \/ ReaperSweep

SpecInc == Init /\ [][NextInc]_vars

----------------------------------------------------------------------------
(* Concurrent writers: every caller sets the same key to a value of its   *)
(* own, once, and reads the key from then on                              *)

NextSet ==
    \/ \E t \in Callers : \E ttl \in {0, 2} :
         th[t].pc = "idle" /\ CacheSetWithTTL(t, "k1", Str(t), ttl)
    \/ \E t \in Callers : th[t].pc = "ret" /\ CacheGet(t, "k1")
    \/ \E t \in Callers : SetBody(t)
    \/ \E t \in Callers : GetBody(t)
    \/ ReaperStart
    \/ Tick
    \/ ReaperTick
    \/ ReaperLock
    \/ ReaperSweep

SpecSet == Init /\ [][NextSet]_vars

----------------------------------------------------------------------------
(* Shutdown: one caller calls Close, once; the others use the store: they *)
(* read, set, delete and clear the key, and start a counter under it when *)
(* the map does not hold it                                               *)

Workers == Callers \ {Main}

\* Close calls made so far: those that have returned and those in the send.
CloseCalls == stopRecv + Cardinality({t \in Callers : th[t].pc = "send"})

\* What a caller inside a store method does next.
InStore(t) ==
    \/ GetBody(t)
    \/ SetBody(t)
    \/ DeleteBody(t)
    \/ ClearBody(t)
    \/ IncrementRead(t)
    \/ IncrementWrite(t)

NextClose ==
    \/ CloseCalls = 0 /\ CacheClose(Main)
    \/ \E t \in Workers : CacheGet(t, "k1")
    \/ \E t \in Workers : CacheSetWithTTL(t, "k1", Str(1), 1)
    \/ \E t \in Workers : CacheDelete(t, "k1")
    \/ \E t \in Workers : ~items["k1"].present /\ CacheIncrement(t, "k1", 1)
    \/ \E t \in Workers : CacheClear(t)
    \/ \E t \in Workers : InStore(t)
    \/ ReaperStart
    \/ Tick
    \/ ReaperTick
    \/ ReaperLock
    \/ ReaperSweep
    \/ ReaperStop(Main)

\* A goroutine that can run does run: a caller inside a store method
\* finishes it, the reaper goes on.  The lock is granted to a waiting writer
\* once its holders are gone for good or again and again (sync.RWMutex does
\* not starve a writer), and a select with a sender waiting on stop takes
\* that case sooner or later (select picks among ready cases at random).
FairClose ==
    /\ \A t \in Workers : WF_vars(InStore(t))
    /\ WF_vars(ReaperStart \/ ReaperTick \/ ReaperSweep)
    /\ SF_vars(ReaperLock)
    /\ SF_vars(ReaperStop(Main))

SpecClose == Init /\ [][NextClose]_vars /\ FairClose

----------------------------------------------------------------------------
(* Vocabulary of the properties *)

\* Caller t runs the body of store method sop in this step.
Runs(t, sop) == th[t].pc = "crit" /\ th[t].sop = sop /\ th'[t].pc # "crit"

\* Caller t runs the write of Increment in this step.
Writes(t) == th[t].pc = "write" /\ th'[t].pc # "write"

\* The last write of k was Set(k, v, ttl) for some v.
WasSet(k) == lastWrite[k].kind = "Set"

\* More than ttl has elapsed since that Set.
TTLElapsed(k) == lastWrite[k].ttl > 0 /\ now > lastWrite[k].at + lastWrite[k].ttl

\* Less than ttl has elapsed since that Set.
TTLRunning(k) == lastWrite[k].ttl > 0 /\ now < lastWrite[k].at + lastWrite[k].ttl

\* The map holds k and the instant of its expiration, if any, has not passed.
Present(k) ==
    items[k].present /\ (items[k].expiration = 0 \/ now <= items[k].expiration)

----------------------------------------------------------------------------
(* C5 *)

\* C5: once more than ttl > 0 has elapsed since Set(key, value, ttl) and the
\* key has not been written again, Get(key) returns not-found and Has(key)
\* returns false, swept or not.
C5_ExpiredIsNotFound ==
    [][\A t \in Callers :
         /\ (Runs(t, "Get") /\ WasSet(th[t].key) /\ TTLElapsed(th[t].key))
              => (th'[t].err = ErrNotFound /\ th'[t].ret = Nil)
         /\ (Runs(t, "Has") /\ WasSet(th[t].key) /\ TTLElapsed(th[t].key))
              => th'[t].ret = Bool(FALSE)]_vars

\* Get has returned not-found for a key whose ttl has elapsed and whose item
\* is still in the map.
C5_Witness ==
    \E t \in Callers :
       /\ th[t].pc = "ret" /\ th[t].op = "Get" /\ th[t].err = ErrNotFound
       /\ WasSet(th[t].key) /\ TTLElapsed(th[t].key)
       /\ items[th[t].key].present

----------------------------------------------------------------------------
(* C6 *)

\* C6: after Set(key, value, ttl) with ttl > 0 and before ttl has elapsed,
\* with no later write of the key, Get(key) returns exactly value and
\* Has(key) is true, whatever the key held before and whatever the reaper did.
C6_SetThenGet ==
    [][\A t \in Callers :
         /\ (Runs(t, "Get") /\ WasSet(th[t].key) /\ TTLRunning(th[t].key))
              => (th'[t].err = ErrNone /\ th'[t].ret = lastWrite[th[t].key].val)
         /\ (Runs(t, "Has") /\ WasSet(th[t].key) /\ TTLRunning(th[t].key))
              => th'[t].ret = Bool(TRUE)]_vars

\* Get has returned the value of a Set that was made after a sweep had
\* started, within its ttl.
C6_Witness ==
    \E t \in Callers :
       /\ th[t].pc = "ret" /\ th[t].op = "Get" /\ th[t].err = ErrNone
       /\ WasSet(th[t].key) /\ TTLRunning(th[t].key)
       /\ lastWrite[th[t].key].at > 0
       /\ th[t].ret = lastWrite[th[t].key].val
       /\ th[t].ret = Str(1)

----------------------------------------------------------------------------
(* C7 *)

\* C7: Increment(key, delta) starts from 0 when the key is absent or expired
\* and from the counter when the key holds a live int64; it returns
\* start + delta and stores it under key; so Increment(key, d1) then
\* Increment(key, d2) on a fresh key returns d1 + d2.
C7_IncrementAdds ==
    [][\A t \in Callers :
         /\ (Runs(t, "Increment") /\ th[t].op = "Increment")
              => /\ ~Present(th[t].key) => th'[t].cur = 0
                 /\ (Present(th[t].key) /\ items[th[t].key].value.kind = "int64")
                      => th'[t].cur = items[th[t].key].value.n
         /\ (Writes(t) /\ th[t].op = "Increment")
              => /\ th'[t].ret = Int64(th[t].cur + th[t].arg)
                 /\ th'[t].err = ErrNone
                 /\ items'[th[t].key].present
                 /\ items'[th[t].key].value = Int64(th[t].cur + th[t].arg)
                 /\ (lastWrite[th[t].key].kind = "Increment"
                       /\ lastWrite[th[t].key].first
                       /\ lastWrite[th[t].key].by = "Increment")
                      => th'[t].ret = Int64(lastWrite[th[t].key].arg + th[t].arg)
       ]_vars

\* The second Increment on a fresh key has returned d1 + d2 = 1 + 2.
C7_Witness ==
    \E t \in Callers :
       /\ th[t].pc = "ret" /\ th[t].op = "Increment" /\ th[t].ret = Int64(3)
       /\ lastWrite[th[t].key].kind = "Increment"
       /\ lastWrite[th[t].key].arg = 2
       /\ ~lastWrite[th[t].key].first
       /\ items[th[t].key].value = Int64(3)

----------------------------------------------------------------------------
(* C8 *)

\* C8: Decrement(key, delta) returns the same value and leaves the store in
\* the same state as Increment(key, -delta) applied to the same state: it
\* reads the start value Increment reads, and returns and stores what
\* Increment returns and stores for -delta.
C8_DecrementIsIncrementNeg ==
    [][\A t \in Callers :
         /\ (Runs(t, "Increment") /\ th[t].op = "Decrement")
              => th'[t].cur = IncrementCurrent(items[th[t].key], now)
         /\ (Writes(t) /\ th[t].op = "Decrement")
              => LET n == IncrementNewValue(th[t].cur, 0 - th[t].arg) IN
                 /\ th'[t].ret = Int64(n)
                 /\ th'[t].err = ErrNone
                 /\ items' = IncrementStore(items, th[t].key, n)]_vars

\* Decrement(key, 2) on a counter holding 3 has returned 1.
C8_Witness ==
    \E t \in Callers :
       /\ th[t].pc = "ret" /\ th[t].op = "Decrement" /\ th[t].ret = Int64(1)
       /\ lastWrite[th[t].key].by = "Decrement"
       /\ lastWrite[th[t].key].arg = 0 - 2
       /\ items[th[t].key] = Item(Int64(1), 0)

----------------------------------------------------------------------------
(* C9 *)

InGetOrSet(t) == th[t].op \in GetOrSetOps

\* The last write of k was the Set of a GetOrSet and its ttl, if any, has
\* not elapsed.
CachedByGetOrSet(k) ==
    /\ WasSet(k)
    /\ lastWrite[k].by \in GetOrSetOps
    /\ (lastWrite[k].ttl <= 0 \/ now < lastWrite[k].at + lastWrite[k].ttl)

\* C9: GetOrSet(key, fetcher, ttl), called sequentially: on a hit it returns
\* the cached value and does not invoke fetcher; on a miss it invokes fetcher
\* exactly once, stores the value fetched under key with ttl and returns it;
\* so a call that follows a GetOrSet of the same key within its ttl is a hit.
C9_GetOrSet ==
    [][\A t \in Callers : InGetOrSet(t) =>
         /\ (Runs(t, "Get") /\ Present(th[t].key))
              => th'[t] = Returned(th[t], items[th[t].key].value, ErrNone)
                 /\ th[t].fetches = 0
         /\ (Runs(t, "Get") /\ ~Present(th[t].key))
              => th'[t].pc = "miss" /\ th'[t].fetches = 0
         /\ (Runs(t, "Get") /\ CachedByGetOrSet(th[t].key))
              => th'[t] = Returned(th[t], lastWrite[th[t].key].val, ErrNone)
         /\ (th[t].pc = "miss" /\ th'[t] # th[t])
              => /\ th'[t].fetches = 1
                 /\ \/ th'[t].pc = "fetched" /\ th'[t].val \in FetchValues
                    \/ th'[t].pc = "ret" /\ th'[t].err = ErrFetch
                 /\ items' = items
         /\ (th[t].pc = "fetched" /\ th'[t] # th[t])
              => th'[t] = [th[t] EXCEPT !.pc = "crit", !.sop = "Set"]
         /\ Runs(t, "Set")
              => /\ th'[t] = Returned(th[t], th[t].val, ErrNone)
                 /\ th[t].fetches = 1
                 /\ items'[th[t].key].present
                 /\ items'[th[t].key].value = th[t].val
                 /\ th[t].ttl > 0 =>
                      items'[th[t].key].expiration = now + th[t].ttl
                 /\ th[t].ttl <= 0 => items'[th[t].key].expiration = 0
       ]_vars

\* The second of two successive GetOrSet calls has returned the value the
\* first one fetched and stored, without invoking fetcher.
C9_Witness ==
    \E t \in Callers :
       /\ th[t] = Returned([Idle EXCEPT !.op = "GetOrSet", !.key = "k1"],
                           Str(2), ErrNone)
       /\ CachedByGetOrSet("k1")
       /\ lastWrite["k1"].ttl > 0
       /\ lastWrite["k1"].val = Str(2)

----------------------------------------------------------------------------
(* C10 *)

\* The last write of k was a Set and its ttl, if any, has not elapsed.
SetIsLive(k) ==
    WasSet(k) /\ (lastWrite[k].ttl <= 0 \/ now < lastWrite[k].at + lastWrite[k].ttl)

\* C10: after Set(key, nil, ttl), while the key is live, Get(key) reports
\* found with value nil (no not-found signal) and Has(key) is true; a
\* GetOrSet whose fetcher returned nil has cached that nil, and a following
\* GetOrSet of the key is a hit that does not invoke fetcher.
C10_NilIsFound ==
    [][\A t \in Callers :
         /\ (Runs(t, "Get") /\ SetIsLive(th[t].key)
               /\ lastWrite[th[t].key].val = Nil)
              => th'[t] = Returned(th[t], Nil, ErrNone) /\ th[t].fetches = 0
         /\ (Runs(t, "Has") /\ SetIsLive(th[t].key)
               /\ lastWrite[th[t].key].val = Nil)
              => th'[t].ret = Bool(TRUE)
         /\ (Runs(t, "Set") /\ InGetOrSet(t) /\ th[t].val = Nil)
              => items'[th[t].key].present /\ items'[th[t].key].value = Nil
       ]_vars

\* A GetOrSet has hit the nil that an earlier GetOrSet fetched and cached.
C10_Witness ==
    \E t \in Callers :
       /\ th[t] = Returned([Idle EXCEPT !.op = "GetOrSet", !.key = "k1"],
                           Nil, ErrNone)
       /\ CachedByGetOrSet("k1")
       /\ lastWrite["k1"].val = Nil
       /\ items["k1"].present /\ items["k1"].value = Nil

----------------------------------------------------------------------------
(* C1 *)

\* No caller is inside Increment.
Quiescent == \A t \in Callers : th[t].pc \in {"idle", "ret"}

\* C1: when the callers make M Increment(key, 1) calls in all on a fresh key,
\* in any interleaving with each other and with the reaper, the M values
\* returned are exactly 1..M with no duplicate, and once every call has
\* returned the key holds M.
C1_NoLostUpdate ==
    /\ {returned[i] : i \in 1 .. Len(returned)} = 1 .. Len(returned)
    /\ (Quiescent /\ Len(returned) > 0)
         => items["k1"] = Item(Int64(Len(returned)), 0)

\* Two callers have made three calls between them, both have returned, and
\* the clock has ticked.
C1_Witness ==
    /\ Quiescent
    /\ Len(returned) = 3
    /\ th[1].pc = "ret" /\ th[2].pc = "ret"
    /\ {th[1].ret, th[2].ret} = {Int64(2), Int64(3)}
    /\ now > 0
    /\ items["k1"].value = Int64(3)

----------------------------------------------------------------------------
(* C2 *)

\* C2: a Close called when the reaper has already exited (a second Close)
\* does not block forever.  The reaper is the only receiver of the stop
\* channel and never comes back once it has exited, so a caller in the send
\* at that point stays there: the claim says no such state is reached.
C2_CloseAfterExitReturns ==
    \A t \in Callers : th[t].pc = "send" => reaper.pc # "exited"

----------------------------------------------------------------------------
(* C3 *)

\* C3: with a positive sweep interval, a single Close call, whatever the
\* other callers and the reaper are doing, eventually returns; the reaper
\* receives the shutdown signal exactly once, then has terminated, and does
\* nothing after that.
C3_SingleCloseReturns ==
    /\ [](cleanup > 0 /\ CloseCalls <= 1 /\ stopRecv <= 1)
    /\ [](reaper.pc = "exited" <=> stopRecv = 1)
    /\ [][reaper.pc = "exited" => reaper' = reaper]_vars
    /\ [][(th[Main].pc = "send" /\ th'[Main].pc # "send")
            => (stopRecv' = stopRecv + 1 /\ reaper'.pc = "exited"
                /\ th'[Main] = Returned(th[Main], Nil, ErrNone))]_vars
    /\ (th[Main].pc = "send") ~> (th[Main].pc = "ret")

\* Close has returned to a caller while another caller was inside a store
\* method, after at least one sweep could have run.
C3_Witness ==
    \E t, u \in Callers :
       /\ th[t].pc = "ret" /\ th[t].op = "Close"
       /\ th[u].pc \in {"crit", "write"}
       /\ reaper.pc = "exited" /\ stopRecv = 1
       /\ now > 0

----------------------------------------------------------------------------
(* C4 *)

\* The Config selects the memory backend and leaves CleanupInterval unset.
IntervalUnset ==
    ~config.isNil /\ config.Backend = BackendMemory /\ config.CleanupInterval = 0

\* C4: a cache built by New from such a Config is created, and its reaper
\* runs with the default period of ten minutes and stays alive: the process
\* goes on, and a Close returns.
C4_UnsetIntervalIsDefault ==
    IntervalUnset =>
      /\ cache.ok
      /\ ~crashed
      /\ reaper.pc # "panicked"
      /\ reaper.pc \in {"select", "locking", "sweeping"}
           => cleanup = DefaultCleanupInterval

----------------------------------------------------------------------------
(* C11 *)

\* Caller t runs the body of the Get of a Cache.Get call in this step.
Gets(t) == Runs(t, "Get") /\ th[t].op = "Get"

\* Caller t runs the body of a Get of its GetMany call in this step.
GetsOfMany(t) == Runs(t, "Get") /\ th[t].op = "GetMany"

\* The last write of k was a Clear.
WasCleared(k) == lastWrite[k].kind = "Clear"

\* C11: Clear returns no error and leaves the map with no key at all; from
\* then on and until a key is written again, whatever it held before the
\* Clear (an item with a ttl, an item with no expiration, a counter), the map
\* does not hold it, Get reports not-found, Has reports false and GetMany
\* omits it.
C11_ClearRemovesAll ==
    /\ [][\A t \in Callers :
            /\ Runs(t, "Clear")
                 => /\ \A k \in Keys : ~items'[k].present
                    /\ th'[t] = Returned(th[t], Nil, ErrNone)
            /\ (Gets(t) /\ WasCleared(th[t].key))
                 => th'[t] = Returned(th[t], Nil, ErrNotFound)
            /\ (Runs(t, "Has") /\ WasCleared(th[t].key))
                 => th'[t] = Returned(th[t], Bool(FALSE), ErrNone)
            /\ (GetsOfMany(t) /\ WasCleared(th[t].key))
                 => th'[t].results = th[t].results]_vars
    /\ [](\A k \in Keys : WasCleared(k) => ~items[k].present)

\* Get has reported not-found for a key that held a live item with a ttl
\* when Clear ran, and Clear removed a counter under the other key too.
C11_Witness ==
    /\ th[Main] = Returned([Idle EXCEPT !.op = "Get", !.key = "k1"], Nil,
                           ErrNotFound)
    /\ WasCleared("k1") /\ lastWrite["k1"].had = "expiring"
    /\ WasCleared("k2") /\ lastWrite["k2"].had = "counter"

----------------------------------------------------------------------------
(* C12 *)

\* The last write of k was a Delete.
WasDeleted(k) == lastWrite[k].kind = "Delete"

\* C12: Delete(key) returns no error, leaves the map without key and with
\* every other key as it was; on a key the map does not hold, and so on a
\* key just deleted (a second Delete), it leaves the store as it is and
\* returns the same; until key is written again Get(key) reports not-found
\* and Has(key) false.
C12_DeleteIdempotent ==
    /\ [][\A t \in Callers :
            /\ Runs(t, "Delete")
                 => /\ th'[t] = Returned(th[t], Nil, ErrNone)
                    /\ ~items'[th[t].key].present
                    /\ \A k \in Keys \ {th[t].key} : items'[k] = items[k]
                    /\ ~items[th[t].key].present => items' = items
                    /\ WasDeleted(th[t].key) => items' = items
            /\ (Gets(t) /\ WasDeleted(th[t].key))
                 => th'[t] = Returned(th[t], Nil, ErrNotFound)
            /\ (Runs(t, "Has") /\ WasDeleted(th[t].key))
                 => th'[t] = Returned(th[t], Bool(FALSE), ErrNone)]_vars
    /\ [](\A k \in Keys : WasDeleted(k) => ~items[k].present)

\* The second of two successive Delete calls on a key that had been written
\* has returned no error, and the other key still holds its item.
C12_Witness ==
    /\ th[Main] = Returned([Idle EXCEPT !.op = "Delete", !.key = "k1"], Nil,
                           ErrNone)
    /\ WasDeleted("k1") /\ lastWrite["k1"].again /\ lastWrite["k1"].written
    /\ lastWrite["k2"].kind = "Set"
    /\ items["k2"] = Item(Str(1), 0)

----------------------------------------------------------------------------
(* C13 *)

\* The last write of k was a Set with ttl <= 0.
SetForGood(k) == WasSet(k) /\ lastWrite[k].ttl <= 0

\* C13: a Set with ttl <= 0 stores the item with no expiration, and so does
\* Forever whatever the default TTL of the cache; from then on and until the
\* key is written again the map holds the item, at any time and through any
\* sweep, Get returns its value and Has is true.
C13_NeverExpires ==
    /\ [][\A t \in Callers :
            /\ (Runs(t, "Set") /\ th[t].ttl <= 0)
                 => items'[th[t].key] = Item(th[t].val, 0)
            /\ (Runs(t, "Set") /\ th[t].op = "Forever")
                 => (cache.defaultTTL > 0 /\ items'[th[t].key] = Item(th[t].val, 0))
            /\ (Gets(t) /\ SetForGood(th[t].key))
                 => th'[t] = Returned(th[t], lastWrite[th[t].key].val, ErrNone)
            /\ (Runs(t, "Has") /\ SetForGood(th[t].key))
                 => th'[t] = Returned(th[t], Bool(TRUE), ErrNone)]_vars
    /\ [](\A k \in Keys :
            SetForGood(k) => items[k] = Item(lastWrite[k].val, 0))

\* Get has returned the value Forever stored when the cache was new, after
\* the default TTL has gone by and with every tick of the reaper served.
C13_Witness ==
    /\ th[Main] = Returned([Idle EXCEPT !.op = "Get", !.key = "k1"], Str(1),
                           ErrNone)
    /\ SetForGood("k1") /\ lastWrite["k1"].by = "Forever"
    /\ lastWrite["k1"].at = 0
    /\ now > cache.defaultTTL
    /\ reaper.pc = "select" /\ ~reaper.tick

----------------------------------------------------------------------------
(* C14 *)

\* The Config selects the memory backend, sets a sweep interval (the reaper
\* runs) and leaves DefaultTTL unset.
DefaultTTLUnset ==
    /\ ~config.isNil /\ config.Backend = BackendMemory
    /\ config.CleanupInterval > 0 /\ config.DefaultTTL = 0

\* C14: in a cache built by New from such a Config, the item that Cache.Set
\* stores expires one hour after the write.
C14_UnsetTTLIsOneHour ==
    \A k \in Keys :
       (DefaultTTLUnset /\ WasSet(k) /\ lastWrite[k].by = "Set"
          /\ items[k].present)
         => items[k].expiration = lastWrite[k].at + DefaultDefaultTTL

----------------------------------------------------------------------------
(* C15 *)

\* Every caller's Set has returned.
AllHaveSet ==
    \A u \in Callers : th[u].pc = "ret" \/ th[u].op = "Get"

\* C15: the Sets of a key run one at a time, each as the only holder of the
\* lock, and the last one to hold it leaves its value in the history; a Get
\* that finds the key returns the value of that last Set, never another
\* one, and a Get that runs once every caller's Set has returned, while the
\* last Set is live, finds the key.
C15_LastWriterWins ==
    /\ [](Cardinality(mu.w) <= 1 /\ (mu.w # {} => mu.r = {}))
    /\ [][\A t \in Callers :
            /\ Runs(t, "Set")
                 => /\ mu.w = {t}
                    /\ th[t].val = Str(t)
                    /\ lastWrite'[th[t].key].val = Str(t)
                    /\ items'[th[t].key].value = Str(t)
            /\ (Gets(t) /\ th'[t].err = ErrNone)
                 => /\ WasSet(th[t].key)
                    /\ th'[t].ret = lastWrite[th[t].key].val
            /\ (Gets(t) /\ AllHaveSet /\ SetIsLive(th[t].key))
                 => th'[t] = Returned(th[t], lastWrite[th[t].key].val, ErrNone)
          ]_vars

\* Both callers have set the key and then read it, and both have read the
\* value of the second caller, whose Set came last.
C15_Witness ==
    /\ th[1] = Returned([Idle EXCEPT !.op = "Get", !.key = "k1"], Str(2), ErrNone)
    /\ th[2] = Returned([Idle EXCEPT !.op = "Get", !.key = "k1"], Str(2), ErrNone)
    /\ lastWrite["k1"].val = Str(2)
    /\ AllHaveSet

----------------------------------------------------------------------------
(* C16 *)

\* No Set and no Increment has ever written k.
NeverWritten(k) == ~lastWrite[k].written

\* C16: the map never holds a key that no Set and no Increment has written,
\* whatever was done to the other keys and to this one by Delete, Clear and
\* the reaper; Get of such a key reports not-found, Has false, GetMany omits
\* it; and Get, Has, Delete and Clear add no key to the map.
C16_NeverWrittenIsAbsent ==
    /\ [](\A k \in Keys : NeverWritten(k) => ~items[k].present)
    /\ [][\A t \in Callers :
            /\ (Gets(t) /\ NeverWritten(th[t].key))
                 => th'[t] = Returned(th[t], Nil, ErrNotFound)
            /\ (Runs(t, "Has") /\ NeverWritten(th[t].key))
                 => th'[t] = Returned(th[t], Bool(FALSE), ErrNone)
            /\ (GetsOfMany(t) /\ NeverWritten(th[t].key))
                 => th'[t].results = th[t].results
            /\ (Runs(t, "Get") \/ Runs(t, "Has") \/ Runs(t, "Delete")
                  \/ Runs(t, "Clear"))
                 => \A k \in Keys : items'[k].present => items[k].present
          ]_vars

\* Get has reported not-found for a key never written, after a Clear, a
\* Delete of that very key and an Increment of the other key.
C16_Witness ==
    /\ th[Main] = Returned([Idle EXCEPT !.op = "Get", !.key = "k2"], Nil,
                           ErrNotFound)
    /\ NeverWritten("k2")
    /\ WasDeleted("k2")
    /\ lastWrite["k1"].kind = "Increment" /\ ~lastWrite["k1"].first
    /\ items["k1"].present
    /\ now > 0

----------------------------------------------------------------------------
(* C17 *)

\* C17: Set, Delete, Clear, Increment and Decrement of the memory store
\* return no error, in whatever state they are called (the store closed
\* included), and Get returns no error or the not-found signal.
C17_MemoryStoreInfallible ==
    [][\A t \in Callers :
         /\ (Runs(t, "Set") \/ Runs(t, "Delete") \/ Runs(t, "Clear") \/ Writes(t))
              => th'[t].err = ErrNone
         /\ Runs(t, "Get") => th'[t].err \in {ErrNone, ErrNotFound}
         /\ (Runs(t, "Get") /\ th'[t].err = ErrNotFound)
              => ~Present(th[t].key)]_vars

\* Decrement has returned no error on a store whose reaper Close has
\* stopped.
C17_Witness ==
    /\ th[Main].pc = "ret" /\ th[Main].op = "Decrement"
    /\ th[Main].err = ErrNone /\ th[Main].ret = Int64(0 - 2)
    /\ stopRecv = 1 /\ reaper.pc = "exited"

----------------------------------------------------------------------------
(* C18 *)

\* C18: when the Set of a GetOrSet has failed after the fetcher has handed
\* back a value, GetOrSet returns that value with no error, having invoked
\* the fetcher once; the failed Set has stored nothing.
C18_SetFailureSwallowed ==
    [][\A t \in Callers :
         /\ (th[t].pc = "fetched" /\ th'[t].pc = "stored"
               /\ th'[t].err # ErrNone)
              => (items' = items /\ th'[t].val = th[t].val)
         /\ (th[t].pc = "stored" /\ th[t].err # ErrNone /\ th'[t] # th[t])
              => /\ th'[t] = Returned(th[t], th[t].val, ErrNone)
                 /\ th[t].val \in FetchValues
                 /\ th'[t].fetches = 1]_vars

\* GetOrSet has returned the value fetched, with no error and after one
\* fetch, and the key has never been stored: the Set had failed.
C18_Witness ==
    /\ th[Main] = [Returned([Idle EXCEPT !.op = "GetOrSet", !.key = "k1"],
                            Str(2), ErrNone) EXCEPT !.fetches = 1]
    /\ lastWrite["k1"].kind = "none"
    /\ ~items["k1"].present

----------------------------------------------------------------------------
(* C19 *)

\* The keys of a list.
KeysOf(ks) == {ks[i] : i \in 1 .. Len(ks)}

\* The keys a GetMany call has read so far.
KeysRead(c) ==
    KeysOf(c.asked) \ (KeysOf(c.keys) \cup (IF c.pc = "crit" THEN {c.key} ELSE {}))

\* C19: GetMany reads the keys asked for one after the other; a key the map
\* holds unexpired at the instant of its read gets an entry with the value
\* stored, a key absent or expired at that instant (swept or not) gets none;
\* after the last key GetMany returns the map with no error, and the map has
\* entries for keys asked for and read only.
C19_GetManyOmitsMisses ==
    /\ [][\A t \in Callers : GetsOfMany(t) =>
            /\ Present(th[t].key)
                 => th'[t].results =
                      [th[t].results EXCEPT ![th[t].key] = Entry(items[th[t].key].value)]
            /\ ~Present(th[t].key) => th'[t].results = th[t].results
            /\ th[t].keys = <<>>
                 => th'[t] = Returned([th[t] EXCEPT !.results = th'[t].results],
                                      Nil, ErrNone)
            /\ th[t].keys # <<>>
                 => (th'[t].pc = "next" /\ th'[t].asked = th[t].asked)]_vars
    /\ [](\A t \in Callers : th[t].op = "GetMany" =>
            /\ th[t].err = ErrNone
            /\ \A k \in Keys : th[t].results[k].found => k \in KeysRead(th[t])
            /\ (th[t].pc = "ret" /\ th[t].asked = <<>>) => th[t].results = NoResults)

\* GetMany of both keys has returned a map with the counter under the second
\* key and no entry for the first, whose item has expired and is still in
\* the store.
C19_Witness ==
    /\ th[Main].pc = "ret" /\ th[Main].op = "GetMany"
    /\ th[Main].asked = <<"k1", "k2">>
    /\ th[Main].err = ErrNone
    /\ th[Main].results = [NoResults EXCEPT !["k2"] = Entry(Int64(1))]
    /\ items["k1"].present /\ isExpired(items["k1"], now)

----------------------------------------------------------------------------
(* C20 *)

\* The Config names the remote backend and no address, or a backend that is
\* neither memory nor redis (the unset one among them).
InvalidConfig ==
    /\ ~config.isNil
    /\ \/ config.Backend = BackendRedis /\ config.RedisURL = ""
       \/ config.Backend \notin {BackendMemory, BackendRedis}

----------------------------------------------------------------------------
(* C21 *)

\* C21: with the README's rate limiter the counter of a key expires one
\* window after the first request of the window: when a request has been
\* rejected, the counter that rejected it, while the map holds it, carries
\* an expiration, one window from now at the latest, so that the caller is
\* admitted again past it.
C21_LimitIsPerWindow ==
    \A t \in Callers :
       (th[t].pc = "ret" /\ th[t].op = "CheckRateLimit"
          /\ th[t].ret = Bool(FALSE) /\ items[th[t].key].present)
         => /\ items[th[t].key].expiration # 0
            /\ items[th[t].key].expiration <= now + RateWindow

----------------------------------------------------------------------------
(* C22 *)

\* The reaper runs the loop over the map and unlocks in this step.
Sweeps == reaper.pc = "sweeping" /\ reaper'.pc # "sweeping"

\* The expiration instant of the item under k is in the past.
PastExpiration(k) ==
    items[k].present /\ items[k].expiration # 0 /\ items[k].expiration < now

\* C22: the reaper takes the exclusive lock once per tick and sweeps as its
\* only holder; the sweep removes every item whose expiration instant is in
\* the past and leaves every other item (no expiration, expiration not yet
\* passed) as it is, value and expiration; after it the map holds no
\* expired item and the lock is free.
C22_SweepRemovesExpiredOnly ==
    /\ [][(reaper.pc = "select" /\ reaper'.pc # "select" /\ reaper'.pc # "exited")
            => (reaper.tick /\ reaper'.pc = "locking" /\ items' = items)]_vars
    /\ [][(reaper.pc = "locking" /\ reaper'.pc # "locking")
            => (mu = [w |-> {}, r |-> {}] /\ mu'.w = {ReaperId}
                /\ reaper'.pc = "sweeping" /\ items' = items)]_vars
    /\ [][Sweeps =>
            /\ mu = [w |-> {ReaperId}, r |-> {}]
            /\ mu' = [w |-> {}, r |-> {}]
            /\ reaper'.pc = "select"
            /\ \A k \in Keys :
                  IF PastExpiration(k) THEN ~items'[k].present
                  ELSE items'[k] = items[k]
            /\ \A k \in Keys : ~(items'[k].present /\ isExpired(items'[k], now))
          ]_vars

\* A sweep has removed the item of the first key, set with a ttl and not
\* written since, and has kept the item with no expiration that the second
\* key held by then.
C22_Witness ==
    /\ reaper.pc = "select"
    /\ WasSet("k1") /\ lastWrite["k1"].ttl > 0 /\ ~items["k1"].present
    /\ WasSet("k2") /\ lastWrite["k2"].ttl = 0
    /\ lastWrite["k2"].at <= lastWrite["k1"].at
    /\ items["k2"] = Item(Str(1), 0)

----------------------------------------------------------------------------
(* C23 *)

----------------------------------------------------------------------------
(* C24 *)

\* C24: the body of Get and the body of Has leave the map as it was: neither
\* removes the expired item it finds.
C24_ReadsLeaveMap ==
    [][\A t \in Callers :
         (Runs(t, "Get") \/ Runs(t, "Has")) => items' = items]_vars

\* Has has answered false for a key whose expired item is still in the map.
C24_Witness ==
    \E t \in Callers :
       /\ th[t].pc = "ret" /\ th[t].op = "Has" /\ th[t].ret = Bool(FALSE)
       /\ items[th[t].key].present
       /\ isExpired(items[th[t].key], now)

----------------------------------------------------------------------------
(* C25 *)

\* The last write of k was made by Increment, called as Increment or through
\* Decrement.
WasCounted(k) == lastWrite[k].kind = "Increment"

\* C25: the write of Increment or Decrement stores the counter with no
\* expiration whatever the item it replaces; from then on and until a
\* Delete, a Clear or a Set of the key, the map holds the counter with no
\* expiration at any time and through any sweep, and Get returns it.
C25_CounterNeverExpires ==
    /\ [][\A t \in Callers :
            /\ Writes(t) => items'[th[t].key] = Item(th'[t].ret, 0)
            /\ (Gets(t) /\ WasCounted(th[t].key))
                 => th'[t] = Returned(th[t], items[th[t].key].value, ErrNone)]_vars
    /\ [](\A k \in Keys :
            WasCounted(k) => /\ items[k].present
                             /\ items[k].expiration = 0
                             /\ items[k].value.kind = "int64")

\* Decrement has replaced a live item that had an expiration; at the last
\* instant of the clock, with every tick of the reaper served, Get has
\* returned the counter.
C25_Witness ==
    /\ th[Main] = Returned([Idle EXCEPT !.op = "Get", !.key = "k1"],
                           Int64(0 - 1), ErrNone)
    /\ WasCounted("k1") /\ lastWrite["k1"].by = "Decrement"
    /\ lastWrite["k1"].had = "expiring"
    /\ now = MaxTime
    /\ reaper.pc = "select" /\ ~reaper.tick

----------------------------------------------------------------------------
(* C27 *)

\* C27: Increment on a key that holds a live value of another dynamic type
\* than int64 (a string, an int) starts from 0: it returns its delta with no
\* error and stores the delta as the counter, with no expiration.
C27_NonCounterStartsAtZero ==
    [][\A t \in Callers :
         /\ (Runs(t, "Increment") /\ Present(th[t].key)
               /\ items[th[t].key].value.kind # "int64")
              => th'[t].cur = 0
         /\ (Writes(t)
               /\ ItemClass(items[th[t].key], now) \in {"lasting", "expiring"})
              => /\ th'[t].ret = Int64(th[t].delta)
                 /\ th'[t].err = ErrNone
                 /\ items'[th[t].key] = Item(Int64(th[t].delta), 0)]_vars

\* Increment(key, 2) has returned 2 for a key that held a live value of
\* another type than int64, stored with a ttl; the counter 2 has no
\* expiration.
C27_Witness ==
    /\ th[Main].pc = "ret" /\ th[Main].op = "Increment"
    /\ th[Main].ret = Int64(2) /\ th[Main].err = ErrNone
    /\ WasCounted("k1") /\ lastWrite["k1"].had = "expiring"
    /\ items["k1"] = Item(Int64(2), 0)

----------------------------------------------------------------------------
(* C26 *)

\* Caller t leaves the point of GetOrSet where it holds the value fetched.
Stores(t) == th[t].pc = "fetched" /\ th'[t].pc # "fetched"

\* C26: concurrent GetOrSet calls on one key are not made into one: a call
\* that has missed fetches, once, and stores what it has fetched without
\* looking at the map again; its Set runs as the only holder of the lock and
\* puts its value into the map over any other call's, so that the map holds
\* the value of the Set that took the lock last; and the call returns the
\* value it has fetched itself.
C26_ConcurrentMissesBothFetch ==
    /\ [][\A t \in Callers :
            /\ Stores(t)
                 => /\ th'[t].pc = "crit" /\ th'[t].sop = "Set"
                    /\ th'[t].val = th[t].val
                    /\ items' = items
            /\ Runs(t, "Set")
                 => /\ mu.w = {t}
                    /\ th[t].fetches = 1
                    /\ items'[th[t].key].value = th[t].val
                    /\ lastWrite'[th[t].key].val = th[t].val
                    /\ th'[t] = Returned(th[t], th[t].val, ErrNone)]_vars
    /\ [](\A t \in Callers : th[t].fetches <= 1)
    /\ [](\A k \in Keys :
            items[k].present => (WasSet(k) /\ items[k].value = lastWrite[k].val))

\* Before any time has passed, both callers have missed the key and fetched,
\* the first the string and the second nil; both have returned their own
\* value, and the map holds nil: the value of the Set that came last.
C26_Witness ==
    /\ now = 0
    /\ th[1] = Returned([Idle EXCEPT !.op = "GetOrSet", !.key = "k1",
                                     !.fetches = 1], Str(2), ErrNone)
    /\ th[2] = Returned([Idle EXCEPT !.op = "GetOrSet", !.key = "k1",
                                     !.fetches = 1], Nil, ErrNone)
    /\ items["k1"].present /\ items["k1"].value = Nil
    /\ lastWrite["k1"].val = Nil

====
